---- MODULE Spec2Model ----
(***************************************************************************)
(* Instance registry and discovery of the Ghidra MCP bridge                *)
(* (src/bridge/state.py, src/bridge/tools/instance_tools.py).              *)
(*                                                                         *)
(* Two threads share the registry: "main", the request-handling thread,    *)
(* which runs bootstrap and then one tool call at a time, and "bg", the    *)
(* daemon thread running periodic_discovery.                               *)
(*                                                                         *)
(* Grain of the steps.  A step holds at most one access to the shared      *)
(* objects that the other thread can tell from its neighbours:             *)
(*  - a lock scope that sends no request (acquire, access, release) is one *)
(*    step, enabled when the lock is free;                                 *)
(*  - a lock scope that sends requests (the refresher's sweep, and         *)
(*    get_instance_url's lazy registration) holds the lock from step to    *)
(*    step;                                                                *)
(*  - an unlocked read of the store is a step, taken together with the     *)
(*    request that follows it; the two requests of register_instance are   *)
(*    one step (whatever /program answers of a backend that is up, it can  *)
(*    answer of one that went down in between);                            *)
(*  - thread-local computation is folded into the step that precedes it.   *)
(***************************************************************************)
EXTENDS Integers, Sequences, FiniteSets, TLC

VARIABLES
    active_instances,       \* dict port -> project_info (state.py:21)
    instances_lock,         \* the thread holding the Lock, or NoThread (state.py:22)
    current_instance_port,  \* state.py:23
    backend,                \* what the process listening at each url currently is
    pc,                     \* each thread's position
    stack,                  \* each thread's return positions (innermost first)
    reg,                    \* register_instance's locals, per thread
    regret,                 \* what register_instance returned, until the caller's next step
    scan,                   \* _discover_instances' locals, per thread
    sweep,                  \* periodic_discovery's locals (iteration, ports_to_remove)
    call,                   \* the tool call the main thread is executing
    ret                     \* what that call returned or raised

vars == <<active_instances, instances_lock, current_instance_port, backend,
          pc, stack, reg, regret, scan, sweep, call, ret>>

----------------------------------------------------------------------------
(* Program constants *)

REQUIRED_API_VERSION == 2010

DEFAULT_GHIDRA_PORT == 8192

GHIDRA_HOST == "localhost"

\* The lowest port get_instance_url registers lazily (state.py:41).
LAZY_URL_MIN_PORT == 8192

MAX_PORT == 65535

QUICK_DISCOVERY_LEN == 10

FULL_DISCOVERY_LEN == 20

----------------------------------------------------------------------------
(* The modelled universe *)

\* A second host, for register's url argument and instances_discover's host.
OtherHost == "otherhost"

Hosts == {GHIDRA_HOST, OtherHost}

\* Ports some backend may ever listen on; every other port always refuses.
BackendPorts == {8192, 8193}

\* The port whose backends may answer anything and that is registered under
\* another url as well; the other ports answer a compatible handshake or none.
RichPort == DEFAULT_GHIDRA_PORT

\* Ports the tool calls are made with (instances_register, with every port
\* of the universe).
InputPorts == {8192, 8193}

\* Ports a URL lookup is made with: one of them below the lazy-registration floor.
UrlInputPorts == InputPorts \cup {80}

\* Python's None for an omitted port; `port or current_instance_port`
\* (state.py:28) treats 0 the same way.
NoPort == 0

Threads == {"main", "bg"}

NoThread == "none"

Url(host, port) == <<host, port>>

NoUrl == <<>>

\* The urls whose backend the model follows as it comes and goes.
Urls == {Url(GHIDRA_HOST, p) : p \in BackendPorts}

\* A url of the other host, where something answers now and then, in any way:
\* what listens there is not followed.  A url that is neither this one nor in
\* the domain of backend always refuses.
FlakyUrls == {Url(OtherHost, RichPort)}

\* The url arguments instances_register is called with for a port.
RegisterUrls(port) == IF port = RichPort THEN {NoUrl, Url(OtherHost, port)} ELSE {NoUrl}

\* f"http://{GHIDRA_HOST}:{port}"
DefaultUrl(port) == Url(GHIDRA_HOST, port)

\* The ports of the universe: those the tool calls are made with and those
\* where a backend is followed (BackendPorts, unless a specification follows
\* backends elsewhere).
ModelledPorts == InputPorts \cup {u[2] : u \in DOMAIN backend}

\* range(start, start + len) cut down to the ports of the universe, in order.
RECURSIVE RangeSeq(_, _)
RangeSeq(start, len) ==
    IF len = 0 THEN <<>>
    ELSE IF start \in ModelledPorts
         THEN <<start>> \o RangeSeq(start + 1, len - 1)
         ELSE RangeSeq(start + 1, len - 1)

\* A quick range as long as the full one.
WIDE_QUICK_RANGE == RangeSeq(DEFAULT_GHIDRA_PORT, FULL_DISCOVERY_LEN)

QUICK_DISCOVERY_RANGE == RangeSeq(DEFAULT_GHIDRA_PORT, QUICK_DISCOVERY_LEN)

FULL_DISCOVERY_RANGE == RangeSeq(DEFAULT_GHIDRA_PORT, FULL_DISCOVERY_LEN)

----------------------------------------------------------------------------
(* Python dicts as functions on a set of string keys *)

EmptyDict == [k \in {} |-> 0]

Has(d, k) == k \in DOMAIN d

Put(d, k, v) == [x \in DOMAIN d \cup {k} |-> IF x = k THEN v ELSE d[x]]

\* dict.get(k, default)
GetOr(d, k, default) == IF k \in DOMAIN d THEN d[k] ELSE default

\* A deletion that empties the dict.
DelAll(d, k) == [x \in {} |-> 0]

\* del d[k]
Del(d, k) == [x \in DOMAIN d \ {k} |-> d[x]]

\* The ports of a dict in ascending order (the order the model enumerates in).
RECURSIVE SortedSeq(_)
SortedSeq(S) ==
    IF S = {} THEN <<>>
    ELSE LET m == CHOOSE x \in S : \A y \in S : x <= y
         IN <<m>> \o SortedSeq(S \ {m})

----------------------------------------------------------------------------
(* Backends and their answers *)

\* "down": refuses connections or answers with an error status;
\* "good": answers the handshake with the required api version;
\* "any":  answers 200 with any body, a compatible handshake or not.
BackendKinds == {"down", "good", "any"}

\* The kinds of backend that come and go at a url.
EnvKinds(url) == IF url[2] = RichPort THEN {"down", "any"} ELSE {"down", "good"}

PLUGIN_VERSION == "v2.0"

\* A JSON body: not JSON at all, or a JSON value that is a dict or not.
NotJson == [json |-> FALSE]

JsonNull == [json |-> TRUE, dict |-> FALSE]

JsonDict(d) == [json |-> TRUE, dict |-> TRUE, d |-> d]

RequestError == [kind |-> "exc"]

Http(ok, body) == [kind |-> "http", ok |-> ok, body |-> body]

VersionResult(api) == [plugin_version |-> PLUGIN_VERSION, api_version |-> api]

GoodHandshake ==
    JsonDict([success |-> TRUE, result |-> JsonDict(VersionResult(REQUIRED_API_VERSION))])

OddHandshakes ==
    { NotJson,
      JsonNull,
      JsonDict([success |-> TRUE]),
      JsonDict([success |-> TRUE, result |-> JsonNull]),
      JsonDict([success |-> TRUE, result |-> JsonDict([plugin_version |-> PLUGIN_VERSION])]),
      JsonDict([success |-> TRUE, result |-> JsonDict(VersionResult(9999))]),
      JsonDict([success |-> FALSE, result |-> JsonDict(VersionResult(9999))]) }

\* What GET {url}/plugin-version may answer now.
PluginVersionAnswers(url) ==
    LET failures == {RequestError, Http(FALSE, NotJson)}
        anything == {Http(TRUE, b) : b \in OddHandshakes \cup {GoodHandshake}}
    IN IF url \in FlakyUrls THEN failures \cup anything
       ELSE IF url \notin DOMAIN backend \/ backend[url] = "down" THEN failures
       ELSE IF backend[url] = "good" THEN {Http(TRUE, GoodHandshake)}
       ELSE anything

\* programId as a sequence of characters.
ProgramA ==
    [programId |-> <<"p", ":", "/", "a">>, name |-> "a.bin", languageId |-> "x86",
     compilerSpecId |-> "gcc", image_base |-> "400000"]

\* The programs a backend may have open.
Programs == {ProgramA}

\* What GET {url}/program may answer now.
ProgramAnswers(url) ==
    IF url \notin FlakyUrls /\ (url \notin DOMAIN backend \/ backend[url] = "down")
    THEN {RequestError, Http(FALSE, NotJson)}
    ELSE {RequestError, Http(FALSE, NotJson), Http(TRUE, NotJson), Http(TRUE, JsonNull),
          Http(TRUE, JsonDict([success |-> TRUE]))}
         \cup {Http(TRUE, JsonDict([success |-> TRUE, result |-> JsonDict(p)])) :
                  p \in Programs}

----------------------------------------------------------------------------
(* register_instance, its pure parts *)

NoRet == [kind |-> "none"]

Registered(port, url) == [kind |-> "registered", port |-> port, url |-> url]

NotResponding(url) == [kind |-> "not_responding", url |-> url]

VersionMismatch(reported) ==
    [kind |-> "version_mismatch", reported |-> reported, required |-> REQUIRED_API_VERSION]

ConnectError(url) == [kind |-> "connect_error", url |-> url]

\* A mismatch test that lets newer plugins through.
AcceptsNewerApiVersion(api) == api >= REQUIRED_API_VERSION

\* A mismatch test with its comparison inverted.
AcceptsOtherApiVersion(api) == api # REQUIRED_API_VERSION

\* The api version the mismatch test of state.py:85 lets through.
AcceptedApiVersion(api) == api = REQUIRED_API_VERSION

\* A version block that runs the mismatch test only on a reported api_version.
ParseVersionSkippingAbsent(info, body) ==
    IF ~body.json \/ ~body.dict THEN [mismatch |-> FALSE, info |-> info]
    ELSE IF ~Has(body.d, "result") THEN [mismatch |-> FALSE, info |-> info]
    ELSE LET result == body.d["result"] IN
         IF ~result.dict THEN [mismatch |-> FALSE, info |-> info]
         ELSE LET plugin_version == GetOr(result.d, "plugin_version", "")
                  api_version == GetOr(result.d, "api_version", 0)
                  info2 == Put(Put(info, "plugin_version", plugin_version),
                               "api_version", api_version)
              IN IF Has(result.d, "api_version") /\ ~AcceptedApiVersion(api_version)
                 THEN [mismatch |-> TRUE, reported |-> api_version]
                 ELSE [mismatch |-> FALSE, info |-> info2]

\* state.py:74-98: project_info after the version block, or the mismatch.
\* A body that is not JSON, or is JSON but no dict ("result" in None raises),
\* ends in the handler of line 97 and leaves project_info as it was.
ParseVersion(info, body) ==
    IF ~body.json \/ ~body.dict THEN [mismatch |-> FALSE, info |-> info]
    ELSE IF ~Has(body.d, "result") THEN [mismatch |-> FALSE, info |-> info]
    ELSE LET result == body.d["result"] IN
         IF ~result.dict THEN [mismatch |-> FALSE, info |-> info]
         ELSE LET plugin_version == GetOr(result.d, "plugin_version", "")
                  api_version == GetOr(result.d, "api_version", 0)
                  info2 == Put(Put(info, "plugin_version", plugin_version),
                               "api_version", api_version)
              IN IF ~AcceptedApiVersion(api_version)
                 THEN [mismatch |-> TRUE, reported |-> api_version]
                 ELSE [mismatch |-> FALSE, info |-> info2]

\* state.py:64-98: what the handshake response makes of the call: a return
\* value, or the project_info to go on with.
Handshake(url, resp) ==
    IF resp.kind = "exc" THEN [done |-> TRUE, ret |-> ConnectError(url)]
    ELSE IF ~resp.ok THEN [done |-> TRUE, ret |-> NotResponding(url)]
    ELSE LET v == ParseVersion([url |-> url], resp.body) IN
         IF v.mismatch THEN [done |-> TRUE, ret |-> VersionMismatch(v.reported)]
         ELSE [done |-> FALSE, info |-> v.info]

\* ":" in program_id
RECURSIVE IndexOf(_, _, _)
IndexOf(s, ch, i) ==
    IF i > Len(s) THEN 0
    ELSE IF s[i] = ch THEN i
    ELSE IndexOf(s, ch, i + 1)

\* program_id.split(":", 1), then the leading "/" of the path dropped.
SplitProgramId(program_id) ==
    LET i == IndexOf(program_id, ":", 1)
        file_path == SubSeq(program_id, i + 1, Len(program_id))
    IN [project |-> SubSeq(program_id, 1, i - 1),
        path |-> IF Len(file_path) > 0 /\ file_path[1] = "/" THEN Tail(file_path)
                 ELSE file_path]

\* state.py:109-120 and 218-230: the descriptive fields a /program result sets.
SetProgramFields(info, result) ==
    LET program_id == GetOr(result, "programId", <<>>)
        withProject ==
            IF IndexOf(program_id, ":", 1) > 0
            THEN Put(Put(info, "project", SplitProgramId(program_id).project),
                     "path", SplitProgramId(program_id).path)
            ELSE info
    IN Put(Put(Put(Put(withProject,
           "file", GetOr(result, "name", "")),
           "language_id", GetOr(result, "languageId", "")),
           "compiler_spec_id", GetOr(result, "compilerSpecId", "")),
           "image_base", GetOr(result, "image_base", ""))

\* The result dict of a /program response, when it has one (state.py:103-108).
HasProgramResult(resp) ==
    /\ resp.kind = "http"
    /\ resp.ok
    /\ resp.body.json
    /\ resp.body.dict
    /\ Has(resp.body.d, "result")
    /\ resp.body.d["result"].dict

\* A /program block that leaves an empty file name behind when it fails.
ParseProgramDefaulting(info, resp) ==
    IF ~HasProgramResult(resp) THEN Put(info, "file", "")
    ELSE SetProgramFields(info, resp.body.d["result"].d)

\* state.py:100-127: project_info after the best-effort /program request.
ParseProgram(info, resp) ==
    IF ~HasProgramResult(resp) THEN info
    ELSE LET result == resp.body.d["result"].d
             withFields == SetProgramFields(info, result)
         IN IF Has(result, "_links") THEN Put(withFields, "_links", result["_links"])
            ELSE withFields

\* A refresh that rebuilds the record from the /program answer and the url.
RefreshProgramRebuilding(info, resp) ==
    IF ~HasProgramResult(resp) THEN info
    ELSE SetProgramFields([url |-> info["url"]], resp.body.d["result"].d)

\* state.py:209-237: the record after the refresher's /program request.
RefreshProgram(info, resp) ==
    IF ~HasProgramResult(resp) THEN info
    ELSE SetProgramFields(info, resp.body.d["result"].d)

----------------------------------------------------------------------------
(* Thread frames *)

NoReg == [port |-> NoPort, url |-> NoUrl, info |-> EmptyDict]

NoScan == [todo |-> <<>>, host |-> "", found |-> <<>>]

NoSweep == [todo |-> <<>>, remove |-> <<>>]

NoCall == [name |-> "none", port |-> NoPort, url |-> NoUrl]

Raised(exc, port) == [kind |-> "raised", exc |-> exc, port |-> port]

\* The module's globals as the import leaves them (state.py:21-23); the main
\* thread is about to run bootstrap_instances, the refresher is not started.
Init ==
    /\ active_instances = EmptyDict
    /\ instances_lock = NoThread
    /\ current_instance_port = DEFAULT_GHIDRA_PORT
    /\ backend = [u \in Urls |-> "down"]
    /\ pc = [t \in Threads |-> IF t = "main" THEN "boot" ELSE "not_started"]
    /\ stack = [t \in Threads |-> <<>>]
    /\ reg = [t \in Threads |-> NoReg]
    /\ regret = [t \in Threads |-> NoRet]
    /\ scan = [t \in Threads |-> NoScan]
    /\ sweep = NoSweep
    /\ call = [NoCall EXCEPT !.name = "bootstrap"]
    /\ ret = NoRet

\* A backend starts, stops or is replaced by another program.
EnvChange ==
    /\ \E u \in Urls :
          \E k \in EnvKinds(u) :
             /\ backend[u] # k
             /\ backend' = [backend EXCEPT ![u] = k]
    /\ UNCHANGED <<active_instances, instances_lock, current_instance_port,
                   pc, stack, reg, regret, scan, sweep, call, ret>>

----------------------------------------------------------------------------
(* Calls, returns and exceptions *)

\* A tool call returns value (or raises it) to the client.
Finish(value) ==
    /\ ret' = value
    /\ pc' = [pc EXCEPT !["main"] = "done"]

\* The caller's step: enter register_instance, to come back at `back`.
CallRegisterInstance(t, port, url, back) ==
    /\ reg' = [reg EXCEPT ![t] = [port |-> port,
                                  url |-> IF url = NoUrl THEN DefaultUrl(port) ELSE url,
                                  info |-> EmptyDict]]
    /\ pc' = [pc EXCEPT ![t] = "reg_probe"]
    /\ stack' = [stack EXCEPT ![t] = <<back>> \o @]

\* register_instance returns value to its caller; instances_register hands it
\* on to the client (instance_tools.py:78).
ReturnFromRegister(t, value) ==
    /\ reg' = [reg EXCEPT ![t] = NoReg]
    /\ stack' = [stack EXCEPT ![t] = Tail(@)]
    /\ IF Head(stack[t]) = "tool"
       THEN Finish(value) /\ UNCHANGED regret
       ELSE /\ pc' = [pc EXCEPT ![t] = Head(stack[t])]
            /\ regret' = [regret EXCEPT ![t] = value]
            /\ UNCHANGED ret

\* An exception no handler of the running function catches: the refresher's
\* loop catches it (state.py:244) and goes to sleep; in bootstrap it ends
\* main() before the server runs; in a tool call the call raises.
Unwind(t, exc, port) ==
    /\ pc' = [pc EXCEPT ![t] = IF t = "bg" THEN "bg_sleep"
                                ELSE IF call.name = "bootstrap" THEN "exited"
                                ELSE "done"]
    /\ stack' = [stack EXCEPT ![t] = <<>>]
    /\ ret' = IF t = "bg" THEN ret ELSE Raised(exc, port)

----------------------------------------------------------------------------
(* register_instance(port, url), state.py:59-136, run by thread t *)

\* state.py:65-127: GET {url}/plugin-version, the version block, and the
\* best-effort GET {url}/program.
reg_probe(t) ==
    /\ pc[t] = "reg_probe"
    /\ \E resp \in PluginVersionAnswers(reg[t].url) :
          LET h == Handshake(reg[t].url, resp) IN
          IF h.done
          THEN ReturnFromRegister(t, h.ret)
          ELSE /\ \E info_response \in ProgramAnswers(reg[t].url) :
                     reg' = [reg EXCEPT ![t].info = ParseProgram(h.info, info_response)]
               /\ pc' = [pc EXCEPT ![t] = "reg_store"]
               /\ UNCHANGED <<stack, regret, ret>>
    /\ UNCHANGED <<active_instances, instances_lock, current_instance_port, backend,
                   scan, sweep, call>>

\* A lock that never makes a thread wait.
CanAcquireAlways(t) == TRUE

\* Whether thread t can take instances_lock now (`with instances_lock:`).
\* threading.Lock is not re-entrant: a thread that holds it waits for ever.
CanAcquire(t) == instances_lock = NoThread

\* A store rebuilt around the new record.
StoreRecordAlone(store, port, info) == Put(EmptyDict, port, info)

\* A write that merges into the record already there, its url kept.
StoreRecordKeepingUrl(store, port, info) ==
    IF port \in DOMAIN store
    THEN Put(store, port, Put(info, "url", store[port]["url"]))
    ELSE Put(store, port, info)

\* state.py:132: active_instances[port] = project_info
StoreRecord(store, port, info) == Put(store, port, info)

\* state.py:131-134: the lock scope that writes the record, and the return.
reg_store(t) ==
    /\ pc[t] = "reg_store"
    /\ CanAcquire(t)
    /\ active_instances' = StoreRecord(active_instances, reg[t].port, reg[t].info)
    /\ ReturnFromRegister(t, Registered(reg[t].port, reg[t].url))
    /\ UNCHANGED <<instances_lock, current_instance_port, backend, scan, sweep, call>>

----------------------------------------------------------------------------
(* _discover_instances(port_range, host), state.py:139-190, run by thread t *)

CallDiscoverInstances(t, range, host, back) ==
    /\ scan' = [scan EXCEPT ![t] = [todo |-> range, host |-> host, found |-> <<>>]]
    /\ pc' = [pc EXCEPT ![t] = "scan_port"]
    /\ stack' = [stack EXCEPT ![t] = <<back>> \o @]

\* `continue`, or the end of the loop body: on to the next port.
ScanNext(t, found) ==
    /\ scan' = [scan EXCEPT ![t] = [todo |-> Tail(@.todo), host |-> @.host,
                                    found |-> found]]
    /\ pc' = [pc EXCEPT ![t] = "scan_port"]

\* A scan that probes every port of its range.
SkipsNoPort(port) == FALSE

\* state.py:145: a port found in the store is skipped.
SkipsPort(port) == port \in DOMAIN active_instances

\* state.py:163: the body is a dict that reports success and carries a result.
WellFormedSuccess(d) == Has(d, "success") /\ d["success"] /\ Has(d, "result")

\* state.py:165-183: the discovery-result entry, kept by its port: every caller
\* drops the url, versions, project, file and result it carries.
InstanceInfo(port) == port

\* state.py:190: the loop is over; every caller drops the returned dict.
scan_return(t) ==
    /\ pc[t] = "scan_port"
    /\ scan[t].todo = <<>>
    /\ pc' = [pc EXCEPT ![t] = Head(stack[t])]
    /\ stack' = [stack EXCEPT ![t] = Tail(@)]
    /\ scan' = [scan EXCEPT ![t] = NoScan]
    /\ UNCHANGED <<active_instances, instances_lock, current_instance_port, backend,
                   reg, sweep, call, ret, regret>>

\* state.py:144-164, 184-188: the membership test and the probe of one port.
scan_port(t) ==
    /\ pc[t] = "scan_port"
    /\ scan[t].todo # <<>>
    /\ LET port == Head(scan[t].todo)
           url == Url(scan[t].host, port)
       IN IF SkipsPort(port)
          THEN ScanNext(t, scan[t].found) /\ UNCHANGED <<stack, reg, ret>>
          ELSE \E resp \in PluginVersionAnswers(url) :
            IF resp.kind = "exc" \/ ~resp.ok \/ ~resp.body.json
            THEN ScanNext(t, scan[t].found) /\ UNCHANGED <<stack, reg, ret>>
            ELSE IF ~resp.body.dict
            THEN \* "success" in json_data raises TypeError, which line 184 does not catch
                 /\ Unwind(t, "TypeError", port)
                 /\ scan' = [scan EXCEPT ![t] = NoScan]
                 /\ UNCHANGED reg
            ELSE IF WellFormedSuccess(resp.body.d)
            THEN /\ CallRegisterInstance(t, port, url, "scan_post")
                 /\ UNCHANGED <<scan, ret>>
            ELSE ScanNext(t, scan[t].found) /\ UNCHANGED <<stack, reg, ret>>
    /\ UNCHANGED <<active_instances, instances_lock, current_instance_port, backend,
                   sweep, call, regret>>

\* state.py:165-178, 182-183: register_instance has returned; the membership
\* test, and the entry appended when the port is not stored.
scan_post(t) ==
    /\ pc[t] = "scan_post"
    /\ LET port == Head(scan[t].todo)
       IN IF port \in DOMAIN active_instances
          THEN pc' = [pc EXCEPT ![t] = "scan_read"] /\ UNCHANGED scan
          ELSE ScanNext(t, Append(scan[t].found, InstanceInfo(port)))
    /\ UNCHANGED <<active_instances, instances_lock, current_instance_port, backend,
                   stack, reg, sweep, call, ret>>
    /\ regret' = [regret EXCEPT ![t] = NoRet]

\* state.py:179-186: active_instances[port] is read for project and file and
\* the entry appended; a KeyError (line 184) drops the entry.
scan_read(t) ==
    /\ pc[t] = "scan_read"
    /\ LET port == Head(scan[t].todo)
       IN IF port \in DOMAIN active_instances
          THEN ScanNext(t, Append(scan[t].found, InstanceInfo(port)))
          ELSE ScanNext(t, scan[t].found)
    /\ UNCHANGED <<active_instances, instances_lock, current_instance_port, backend,
                   stack, reg, sweep, call, ret, regret>>

----------------------------------------------------------------------------
(* periodic_discovery, state.py:193-247, the "bg" thread *)

\* state.py:197: a cycle starts with a scan of the full range.
bg_cycle ==
    /\ pc["bg"] = "bg_sleep"
    /\ CallDiscoverInstances("bg", FULL_DISCOVERY_RANGE, GHIDRA_HOST, "sweep_lock")
    /\ UNCHANGED <<active_instances, instances_lock, current_instance_port, backend,
                   reg, sweep, call, ret, regret>>

\* state.py:199-201: the lock is taken and the enumeration of the store starts.
sweep_lock ==
    /\ pc["bg"] = "sweep_lock"
    /\ CanAcquire("bg")
    /\ instances_lock' = "bg"
    /\ sweep' = [todo |-> SortedSeq(DOMAIN active_instances), remove |-> <<>>]
    /\ pc' = [pc EXCEPT !["bg"] = "sweep"]
    /\ UNCHANGED <<active_instances, current_instance_port, backend,
                   stack, reg, scan, call, ret, regret>>

\* A probe that also counts a body that is not JSON as a failure.
ProbeFailedOrNotJson(resp) == resp.kind = "exc" \/ ~resp.ok \/ ~resp.body.json

\* A probe that also fails a backend reporting another api version.
ProbeFailedOrIncompatible(resp) ==
    \/ resp.kind = "exc"
    \/ ~resp.ok
    \/ resp.body # GoodHandshake

\* state.py:205, 238: what marks a port for removal.
ProbeFailed(resp) == resp.kind = "exc" \/ ~resp.ok

\* state.py:201-239: the liveness probe of the next record and, when it
\* answers, the refresh of its descriptive fields in place.
sweep_probe ==
    /\ pc["bg"] = "sweep"
    /\ sweep.todo # <<>>
    /\ LET port == Head(sweep.todo)
           url == active_instances[port]["url"]
       IN \E resp \in PluginVersionAnswers(url) :
            IF ProbeFailed(resp)
            THEN /\ sweep' = [todo |-> Tail(sweep.todo),
                              remove |-> Append(sweep.remove, port)]
                 /\ UNCHANGED active_instances
            ELSE /\ \E info_response \in ProgramAnswers(url) :
                       active_instances' = [active_instances EXCEPT
                                               ![port] = RefreshProgram(@, info_response)]
                 /\ sweep' = [sweep EXCEPT !.todo = Tail(@)]
    /\ UNCHANGED <<instances_lock, current_instance_port, backend,
                   pc, stack, reg, scan, call, ret, regret>>

\* state.py:241-243: the marked ports are deleted, one by one.
sweep_del ==
    /\ pc["bg"] = "sweep"
    /\ sweep.todo = <<>>
    /\ sweep.remove # <<>>
    /\ active_instances' = Del(active_instances, Head(sweep.remove))
    /\ sweep' = [sweep EXCEPT !.remove = Tail(@)]
    /\ UNCHANGED <<instances_lock, current_instance_port, backend,
                   pc, stack, reg, scan, call, ret, regret>>

\* state.py:243-247: the lock scope ends and the thread sleeps.
sweep_done ==
    /\ pc["bg"] = "sweep"
    /\ sweep.todo = <<>>
    /\ sweep.remove = <<>>
    /\ instances_lock' = NoThread
    /\ pc' = [pc EXCEPT !["bg"] = "bg_sleep"]
    /\ sweep' = NoSweep
    /\ UNCHANGED <<active_instances, current_instance_port, backend,
                   stack, reg, scan, call, ret, regret>>

----------------------------------------------------------------------------
(* bootstrap_instances, state.py:250-253, and server.py:69-74 *)

boot ==
    /\ pc["main"] = "boot"
    /\ CallRegisterInstance("main", DEFAULT_GHIDRA_PORT, DefaultUrl(DEFAULT_GHIDRA_PORT),
                            "boot_scan")
    /\ UNCHANGED <<active_instances, instances_lock, current_instance_port, backend,
                   scan, sweep, call, ret, regret>>

boot_scan ==
    /\ pc["main"] = "boot_scan"
    /\ CallDiscoverInstances("main", QUICK_DISCOVERY_RANGE, GHIDRA_HOST, "boot_done")
    /\ UNCHANGED <<active_instances, instances_lock, current_instance_port, backend,
                   reg, sweep, call, ret>>
    /\ regret' = [regret EXCEPT !["main"] = NoRet]

\* server.py:71-78: the refresher thread is started and the server serves.
boot_done ==
    /\ pc["main"] = "boot_done"
    /\ pc' = [pc EXCEPT !["main"] = "idle", !["bg"] = "bg_sleep"]
    /\ call' = NoCall
    /\ UNCHANGED <<active_instances, instances_lock, current_instance_port, backend,
                   stack, reg, scan, sweep, ret, regret>>

----------------------------------------------------------------------------
(* The tool calls of the main thread *)

\* The client has its answer; the next call may come.
tool_return ==
    /\ pc["main"] = "done"
    /\ pc' = [pc EXCEPT !["main"] = "idle"]
    /\ call' = NoCall
    /\ ret' = NoRet
    /\ UNCHANGED <<active_instances, instances_lock, current_instance_port, backend,
                   stack, reg, scan, sweep, regret>>

\* instances_register(port, url), instance_tools.py:72-78.
instances_register ==
    /\ pc["main"] = "idle"
    /\ \E port \in ModelledPorts :
          \E url \in RegisterUrls(port) :
             /\ call' = [name |-> "register", port |-> port, url |-> url]
             /\ CallRegisterInstance("main", port, url, "tool")
    /\ UNCHANGED <<active_instances, instances_lock, current_instance_port, backend,
                   scan, sweep, ret, regret>>

\* instances_unregister(port), instance_tools.py:80-89: one lock scope.
instances_unregister ==
    /\ pc["main"] = "idle"
    /\ CanAcquire("main")
    /\ \E port \in InputPorts :
          /\ call' = [name |-> "unregister", port |-> port, url |-> NoUrl]
          /\ IF port \in DOMAIN active_instances
             THEN /\ active_instances' = Del(active_instances, port)
                  /\ Finish([kind |-> "unregistered", port |-> port])
             ELSE /\ UNCHANGED active_instances
                  /\ Finish([kind |-> "no_instance_found", port |-> port])
    /\ UNCHANGED <<instances_lock, current_instance_port, backend,
                   stack, reg, scan, sweep, regret>>

\* A set_current_port that takes only the ports it finds in the store.
SetCurrentPortIfStored ==
    /\ pc["main"] = "idle"
    /\ \E port \in InputPorts :
          /\ call' = [name |-> "set_current", port |-> port, url |-> NoUrl]
          /\ current_instance_port' = IF port \in DOMAIN active_instances THEN port
                                      ELSE current_instance_port
    /\ Finish(NoRet)
    /\ UNCHANGED <<active_instances, instances_lock, backend,
                   stack, reg, scan, sweep, regret>>

\* set_current_port(port), state.py:48-51.
set_current_port ==
    /\ pc["main"] = "idle"
    /\ \E port \in InputPorts :
          /\ call' = [name |-> "set_current", port |-> port, url |-> NoUrl]
          /\ current_instance_port' = port
    /\ Finish(NoRet)
    /\ UNCHANGED <<active_instances, instances_lock, backend,
                   stack, reg, scan, sweep, regret>>

\* get_current_port(), state.py:54-56.
get_current_port ==
    /\ pc["main"] = "idle"
    /\ call' = [name |-> "get_current", port |-> NoPort, url |-> NoUrl]
    /\ Finish([kind |-> "port", port |-> current_instance_port])
    /\ UNCHANGED <<active_instances, instances_lock, current_instance_port, backend,
                   stack, reg, scan, sweep, regret>>

\* state.py:28: `port or current_instance_port`.
ResolvedPort(requested) ==
    IF requested = NoPort THEN current_instance_port ELSE requested

\* get_instance_port(port), state.py:26-33, up to the first membership test.
get_instance_port ==
    /\ pc["main"] = "idle"
    /\ \E requested \in InputPorts \cup {NoPort} :
          LET port == ResolvedPort(requested)
          IN /\ call' = [name |-> "resolve", port |-> port, url |-> NoUrl,
                         requested |-> requested]
             /\ IF port \in DOMAIN active_instances
                THEN Finish([kind |-> "port", port |-> port]) /\ UNCHANGED <<stack, reg>>
                ELSE CallRegisterInstance("main", port, NoUrl, "resolve_recheck")
                     /\ UNCHANGED ret
    /\ UNCHANGED <<active_instances, instances_lock, current_instance_port, backend,
                   scan, sweep, regret>>

\* state.py:31-33: the second membership test.
resolve_recheck ==
    /\ pc["main"] = "resolve_recheck"
    /\ IF call.port \in DOMAIN active_instances
       THEN Finish([kind |-> "port", port |-> call.port])
       ELSE Finish(Raised("ValueError", call.port))
    /\ UNCHANGED <<active_instances, instances_lock, current_instance_port, backend,
                   stack, reg, scan, sweep, call>>
    /\ regret' = [regret EXCEPT !["main"] = NoRet]

\* instances_use(port), instance_tools.py:91-101: the first membership test,
\* and set_current_port when the port is there.
instances_use ==
    /\ pc["main"] = "idle"
    /\ \E port \in InputPorts :
          /\ call' = [name |-> "use", port |-> port, url |-> NoUrl]
          /\ IF port \in DOMAIN active_instances
             THEN /\ current_instance_port' = port
                  /\ pc' = [pc EXCEPT !["main"] = "use_read"]
                  /\ UNCHANGED <<stack, reg>>
             ELSE /\ CallRegisterInstance("main", port, NoUrl, "use_recheck")
                  /\ UNCHANGED current_instance_port
    /\ UNCHANGED <<active_instances, instances_lock, backend, scan, sweep, ret, regret>>

\* An instances_use that sets the current port before its second test.
UseRecheckSettingFirst ==
    /\ pc["main"] = "use_recheck"
    /\ current_instance_port' = call.port
    /\ IF call.port \in DOMAIN active_instances
       THEN pc' = [pc EXCEPT !["main"] = "use_read"] /\ UNCHANGED ret
       ELSE Finish([kind |-> "no_active_instance", port |-> call.port])
    /\ UNCHANGED <<active_instances, instances_lock, backend, stack, reg, scan, sweep, call>>
    /\ regret' = [regret EXCEPT !["main"] = NoRet]

\* instance_tools.py:98-101: the second membership test, then set_current_port.
use_recheck ==
    /\ pc["main"] = "use_recheck"
    /\ IF call.port \in DOMAIN active_instances
       THEN /\ current_instance_port' = call.port
            /\ pc' = [pc EXCEPT !["main"] = "use_read"]
            /\ UNCHANGED ret
       ELSE /\ Finish([kind |-> "no_active_instance", port |-> call.port])
            /\ UNCHANGED current_instance_port
    /\ UNCHANGED <<active_instances, instances_lock, backend, stack, reg, scan, sweep, call>>
    /\ regret' = [regret EXCEPT !["main"] = NoRet]

\* instance_tools.py:103-107: the lock scope reading active_instances[port];
\* a KeyError when the port is gone.
use_read ==
    /\ pc["main"] = "use_read"
    /\ CanAcquire("main")
    /\ IF call.port \in DOMAIN active_instances
       THEN Finish([kind |-> "now_using", port |-> call.port,
                    program |-> GetOr(active_instances[call.port], "file", "unknown program"),
                    project |-> GetOr(active_instances[call.port], "project", "unknown project")])
       ELSE Finish(Raised("KeyError", call.port))
    /\ UNCHANGED <<active_instances, instances_lock, current_instance_port, backend,
                   stack, reg, scan, sweep, call, regret>>

\* state.py:41: the ports get_instance_url registers when they are not stored.
LazyUrlPort(port) == LAZY_URL_MIN_PORT <= port /\ port <= MAX_PORT

\* get_instance_url(port), state.py:36-45, as _make_request calls it
\* (http_client.py:48): the lock is taken, and register_instance is called
\* with the lock held.
get_instance_url ==
    /\ pc["main"] = "idle"
    /\ CanAcquire("main")
    /\ \E port \in UrlInputPorts :
          /\ call' = [name |-> "get_url", port |-> port, url |-> NoUrl]
          /\ IF port \in DOMAIN active_instances
             THEN /\ Finish([kind |-> "url", url |-> active_instances[port]["url"]])
                  /\ UNCHANGED <<instances_lock, stack, reg>>
             ELSE IF LazyUrlPort(port)
             THEN /\ CallRegisterInstance("main", port, NoUrl, "url_recheck")
                  /\ instances_lock' = "main"
                  /\ UNCHANGED ret
             ELSE /\ Finish([kind |-> "url", url |-> DefaultUrl(port)])
                  /\ UNCHANGED <<instances_lock, stack, reg>>
    /\ UNCHANGED <<active_instances, current_instance_port, backend,
                   scan, sweep, regret>>

\* state.py:43-45: register_instance has returned; the lock scope ends.
url_recheck ==
    /\ pc["main"] = "url_recheck"
    /\ IF call.port \in DOMAIN active_instances
       THEN Finish([kind |-> "url", url |-> active_instances[call.port]["url"]])
       ELSE Finish([kind |-> "url", url |-> DefaultUrl(call.port)])
    /\ instances_lock' = NoThread
    /\ UNCHANGED <<active_instances, current_instance_port, backend,
                   stack, reg, scan, sweep, call>>
    /\ regret' = [regret EXCEPT !["main"] = NoRet]

\* instances_list() and instances_discover(host), instance_tools.py:23-70:
\* a quick scan of the host, then the listing.
instances_list ==
    /\ pc["main"] = "idle"
    /\ \E host \in Hosts :
          /\ call' = [name |-> IF host = GHIDRA_HOST THEN "list" ELSE "discover",
                      port |-> NoPort, url |-> NoUrl]
          /\ CallDiscoverInstances("main", QUICK_DISCOVERY_RANGE, host, "list_build")
    /\ UNCHANGED <<active_instances, instances_lock, current_instance_port, backend,
                   reg, sweep, ret, regret>>

\* An entry that leaves the port out.
ListEntryWithoutPort(port) ==
    [port |-> NoPort, url |-> active_instances[port]["url"],
     project |-> GetOr(active_instances[port], "project", ""),
     file |-> GetOr(active_instances[port], "file", "")]

\* instance_tools.py:33-43: one entry per record.
ListEntry(port) ==
    [port |-> port, url |-> active_instances[port]["url"],
     project |-> GetOr(active_instances[port], "project", ""),
     file |-> GetOr(active_instances[port], "file", "")]

\* instance_tools.py:32-43 and 59-70: the lock scope that builds the listing.
list_build ==
    /\ pc["main"] = "list_build"
    /\ CanAcquire("main")
    /\ Finish([kind |-> "instances",
               instances |-> {ListEntry(port) : port \in DOMAIN active_instances}])
    /\ UNCHANGED <<active_instances, instances_lock, current_instance_port, backend,
                   stack, reg, scan, sweep, call, regret>>

----------------------------------------------------------------------------

MainStep ==
    \/ boot \/ boot_scan \/ boot_done
    \/ instances_register
    \/ instances_unregister
    \/ set_current_port \/ get_current_port
    \/ get_instance_port \/ resolve_recheck
    \/ instances_use \/ use_recheck \/ use_read
    \/ get_instance_url \/ url_recheck
    \/ instances_list \/ list_build
    \/ tool_return

BgStep == bg_cycle \/ sweep_lock \/ sweep_probe \/ sweep_del \/ sweep_done

SharedStep(t) ==
    \/ reg_probe(t) \/ reg_store(t)
    \/ scan_port(t) \/ scan_return(t) \/ scan_post(t) \/ scan_read(t)

Next == MainStep \/ BgStep \/ (\E t \in Threads : SharedStep(t)) \/ EnvChange

Spec == Init /\ [][Next]_vars

\* The program when the client makes no tool call: bootstrap, then the
\* refresher alone.  Both threads keep being scheduled (the refresher's
\* time.sleep(30) returns, state.py:247).
NextRefresher ==
    \/ boot \/ boot_scan \/ boot_done
    \/ BgStep
    \/ (\E t \in Threads : SharedStep(t))
    \/ EnvChange

SpecRefresher ==
    /\ Init
    /\ [][NextRefresher]_vars
    /\ WF_vars(boot \/ boot_scan \/ boot_done \/ SharedStep("main"))
    /\ WF_vars(BgStep \/ SharedStep("bg"))

----------------------------------------------------------------------------
(* The claims *)

\* C1: every record in the store belongs to an instance whose handshake
\* reported api_version = REQUIRED_API_VERSION (2010).
C1_StoredRecordsAreCompatible ==
    \A port \in DOMAIN active_instances :
        /\ Has(active_instances[port], "api_version")
        /\ active_instances[port]["api_version"] = REQUIRED_API_VERSION

\* C2: register never raises; when the handshake request errors, answers a
\* non-success status or reports an api_version other than the required one,
\* register returns an error message (the mismatch message naming the
\* reported and the required version) and the store is left as it was,
\* the record already stored for the port included.
C2_FailedRegisterLeavesStore ==
    /\ [](\A t \in Threads :
            pc[t] = "reg_probe" =>
              \A resp \in PluginVersionAnswers(reg[t].url) :
                 LET reports ==
                         /\ resp.kind = "http" /\ resp.ok
                         /\ resp.body.json /\ resp.body.dict
                         /\ Has(resp.body.d, "result")
                         /\ resp.body.d["result"].dict
                         /\ Has(resp.body.d["result"].d, "api_version")
                     other == reports /\ resp.body.d["result"].d["api_version"]
                                            # REQUIRED_API_VERSION
                     h == Handshake(reg[t].url, resp)
                 IN /\ resp.kind = "exc" => h.done /\ h.ret.kind = "connect_error"
                    /\ (resp.kind = "http" /\ ~resp.ok) =>
                           h.done /\ h.ret.kind = "not_responding"
                    /\ other =>
                          /\ h.done
                          /\ h.ret.kind = "version_mismatch"
                          /\ h.ret.reported = resp.body.d["result"].d["api_version"]
                          /\ h.ret.required = REQUIRED_API_VERSION)
    /\ [][\A t \in Threads :
            (pc[t] = "reg_probe" /\ pc'[t] # "reg_probe") =>
               \/ pc'[t] = "reg_store" /\ active_instances' = active_instances
               \/ /\ active_instances' = active_instances
                  /\ reg'[t] = NoReg
                  /\ IF Head(stack[t]) = "tool"
                     THEN /\ pc'[t] = "done"
                          /\ ret'.kind \in {"connect_error", "not_responding",
                                            "version_mismatch"}
                     ELSE /\ pc'[t] = Head(stack[t])
                          /\ regret'[t].kind \in {"connect_error", "not_responding",
                                                  "version_mismatch"}]_vars

\* C2's case: the client has a version mismatch as its answer, and the record
\* stored for that port is there.
C2_Witness ==
    /\ pc["main"] = "done"
    /\ call.name = "register"
    /\ ret.kind = "version_mismatch"
    /\ call.port \in DOMAIN active_instances

\* C3: a register that succeeds changes the store at its own key only: the
\* key set becomes the old one plus the port, every other record is what it
\* was, and current_instance_port is what it was.
C3_RegisterWritesOwnKeyOnly ==
    [][\A t \in Threads :
         (pc[t] = "reg_store" /\ pc'[t] # "reg_store") =>
            /\ DOMAIN active_instances' = DOMAIN active_instances \cup {reg[t].port}
            /\ \A q \in DOMAIN active_instances \ {reg[t].port} :
                  active_instances'[q] = active_instances[q]
            /\ current_instance_port' = current_instance_port]_vars

\* C3's case: a register call has succeeded with another port in the store.
C3_Witness ==
    /\ pc["main"] = "done"
    /\ call.name = "register"
    /\ ret.kind = "registered"
    /\ Cardinality(DOMAIN active_instances) = 2

\* C4: a stored instance that has become unreachable is removed by the next
\* refresher cycle that completes.  In its weakest form: an unreachable
\* instance does not stay in the store for as long as it stays unreachable.
C4_UnreachableIsRemoved ==
    \A port \in BackendPorts :
        (/\ port \in DOMAIN active_instances
         /\ backend[active_instances[port]["url"]] = "down")
        ~> (\/ port \notin DOMAIN active_instances
            \/ backend[active_instances[port]["url"]] # "down")

\* C5: a scan sends no probe to, and calls no register for, a port of its
\* range that is in the store when the scan reaches it: whatever the backend
\* would answer, the scan moves on to the next port with its results, the
\* store and that port's record as they were; and the only port a scan ever
\* registers is the one it is at, which it did not find in the store.
C5_ScanSkipsStoredPorts ==
    /\ [](\A t \in Threads :
            (/\ pc[t] \in {"reg_probe", "reg_store"}
             /\ Head(stack[t]) = "scan_post") =>
               /\ scan[t].todo # <<>>
               /\ reg[t].port = Head(scan[t].todo))
    /\ [][\A t \in Threads :
            (/\ pc[t] = "scan_port"
             /\ scan[t].todo # <<>>
             /\ Head(scan[t].todo) \in DOMAIN active_instances
             /\ (pc'[t] # pc[t] \/ scan'[t] # scan[t])) =>
               /\ pc'[t] = "scan_port"
               /\ scan'[t] = [scan[t] EXCEPT !.todo = Tail(@)]
               /\ reg'[t] = reg[t]
               /\ stack'[t] = stack[t]
               /\ active_instances' = active_instances]_vars

\* C5's case: a scan is at a port that is stored, whose backend answers.
C5_Witness ==
    \E t \in Threads :
        /\ pc[t] = "scan_port"
        /\ scan[t].todo # <<>>
        /\ Head(scan[t].todo) \in DOMAIN active_instances
        /\ backend[Url(scan[t].host, Head(scan[t].todo))] = "any"

\* C6: with the port omitted, resolve returns the current port P when the
\* validate-and-register of P succeeds, fails with the no-active-instance
\* error naming P otherwise, and returns no port other than P.
C6_ResolveCurrentPort ==
    [][(/\ pc["main"] = "resolve_recheck"
        /\ pc'["main"] = "done"
        /\ call.requested = NoPort) =>
           /\ regret["main"].kind = "registered" =>
                  ret' = [kind |-> "port", port |-> current_instance_port]
           /\ ret'.kind \in {"port", "raised"}
           /\ ret'.port = current_instance_port
           /\ ret'.kind = "raised" => ret'.exc = "ValueError"]_vars

\* C7: resolve(p) for a p that is not stored: when its one registration stores
\* p, resolve returns p and p is in the store at the final membership test;
\* resolve never changes current_instance_port.
C7_ResolveAfterRegistration ==
    [][(/\ pc["main"] = "resolve_recheck"
        /\ pc'["main"] = "done"
        /\ call.requested # NoPort) =>
           /\ regret["main"].kind = "registered" =>
                 /\ call.requested \in DOMAIN active_instances
                 /\ ret' = [kind |-> "port", port |-> call.requested]
           /\ current_instance_port' = current_instance_port]_vars

\* C8: a port leaves the store only in the refresher's deletion step for that
\* port, or in an unregister of that port; and the refresher marks a port for
\* deletion only when the liveness probe of its record can have failed.
C8_PortsLeaveByDeletionOrUnregister ==
    [][/\ \A port \in DOMAIN active_instances :
             port \notin DOMAIN active_instances' =>
                \/ /\ pc["bg"] = "sweep"
                   /\ sweep.todo = <<>>
                   /\ sweep.remove # <<>>
                   /\ Head(sweep.remove) = port
                   /\ sweep'.remove = Tail(sweep.remove)
                   /\ DOMAIN active_instances' = DOMAIN active_instances \ {port}
                \/ /\ pc["main"] = "idle"
                   /\ pc'["main"] = "done"
                   /\ call'.name = "unregister"
                   /\ call'.port = port
                   /\ DOMAIN active_instances' = DOMAIN active_instances \ {port}
       /\ (pc["bg"] = "sweep" /\ Len(sweep'.remove) > Len(sweep.remove)) =>
             LET port == Head(sweep.todo)
                 url == active_instances[port]["url"]
             IN /\ sweep'.remove = Append(sweep.remove, port)
                /\ \/ url \in FlakyUrls
                   \/ url \notin Urls
                   \/ backend[url] = "down"]_vars

\* C8's case: the refresher is at its deletion step with a port marked.
C8_Witness ==
    /\ pc["bg"] = "sweep"
    /\ sweep.todo = <<>>
    /\ sweep.remove # <<>>
    /\ Head(sweep.remove) \in DOMAIN active_instances

C10_StoreChangesUnderLock ==
    [][/\ active_instances' # active_instances =>
             \/ instances_lock = NoThread
             \/ /\ instances_lock = "bg"
                /\ pc["bg"] = "sweep"
                /\ sweep' # sweep
       /\ (pc["bg"] = "sweep" /\ sweep.todo # <<>>) =>
             DOMAIN active_instances' = DOMAIN active_instances]_vars

\* C10's case: the refresher enumerates the store, lock held, while the main
\* thread waits to write a record.
C10_Witness ==
    /\ instances_lock = "bg"
    /\ pc["bg"] = "sweep"
    /\ sweep.todo # <<>>
    /\ pc["main"] = "reg_store"

\* C11: every membership test followed by a read of that port's record runs in
\* one lock scope, so no operation finds a port at its test and misses it at
\* the read: instances_use never fails on a missing key after it has set
\* current_instance_port, and a scan never loses the entry of a port it has
\* just found registered.
C11_CheckThenReadIsAtomic ==
    /\ [](pc["main"] = "done" /\ call.name = "use" => ret.kind # "raised")
    /\ [][\A t \in Threads :
            (pc[t] = "scan_read" /\ pc'[t] # "scan_read") =>
               scan'[t].found = Append(scan[t].found, InstanceInfo(Head(scan[t].todo)))]_vars

\* C12: no thread holds instances_lock while it sends a request: a thread that
\* is about to send GET /plugin-version (in register_instance, or as the
\* liveness probe of the sweep) does not hold the lock.
C12_NoRequestUnderLock ==
    \A t \in Threads :
        instances_lock = t =>
           /\ pc[t] # "reg_probe"
           /\ ~(pc[t] = "sweep" /\ sweep.todo # <<>>)

\* C13: the refresher never stops: every cycle ends with the lock released
\* and another cycle starts.  As a finite run refutes it: once started, the
\* refresher is never in a state where it cannot take a step (it waits for
\* the lock) while the main thread cannot take one either, so that the lock
\* is never released.
C13_RefresherKeepsCycling ==
    pc["bg"] # "not_started" =>
       \/ ENABLED (BgStep \/ SharedStep("bg"))
       \/ ENABLED (MainStep \/ SharedStep("main"))

\* C14: every call of resolve, register, scan, URL lookup, list, use and
\* unregister returns.  As a finite run refutes it: a main thread inside a
\* call can take a step, or waits for the lock while the refresher holds it
\* (and the refresher's sweep always ends).
C14_EveryCallReturns ==
    pc["main"] \notin {"idle", "done", "exited"} =>
       \/ ENABLED (MainStep \/ SharedStep("main"))
       \/ instances_lock = "bg"

----------------------------------------------------------------------------
(* One scan on its own: _discover_instances(QUICK_DISCOVERY_RANGE) entered    *)
(* with an empty store, against backends that stay what they are.           *)

InitScan ==
    /\ active_instances = EmptyDict
    /\ instances_lock = NoThread
    /\ current_instance_port \in InputPorts
    /\ backend \in [Urls -> BackendKinds]
    /\ pc = [t \in Threads |-> IF t = "main" THEN "scan_port" ELSE "not_started"]
    /\ stack = [t \in Threads |-> IF t = "main" THEN <<"scanned">> ELSE <<>>]
    /\ reg = [t \in Threads |-> NoReg]
    /\ regret = [t \in Threads |-> NoRet]
    /\ scan = [t \in Threads |->
                 IF t = "main"
                 THEN [todo |-> QUICK_DISCOVERY_RANGE, host |-> GHIDRA_HOST, found |-> <<>>]
                 ELSE NoScan]
    /\ sweep = NoSweep
    /\ call = [NoCall EXCEPT !.name = "scan"]
    /\ ret = NoRet

NextScan == SharedStep("main")

SpecScan == InitScan /\ [][NextScan]_vars

\* C15: a scan entered with no port of its range in the store, where the
\* backends of the set L of ports are live and compatible and every other
\* port of the range is unreachable, ends with found = |L| and with the
\* store's key set equal to L.
C15_ScanFindsLiveBackends ==
    LET range == {QUICK_DISCOVERY_RANGE[i] : i \in 1..Len(QUICK_DISCOVERY_RANGE)}
        L == {port \in range : backend[DefaultUrl(port)] = "good"}
    IN (/\ pc["main"] = "scan_port"
        /\ scan["main"].todo = <<>>
        /\ \A port \in range : backend[DefaultUrl(port)] \in {"good", "down"}) =>
           /\ Len(scan["main"].found) = Cardinality(L)
           /\ DOMAIN active_instances = L

\* C15's case: the scan is over, one port of the range was live and found.
C15_Witness ==
    /\ pc["main"] = "scan_port"
    /\ scan["main"].todo = <<>>
    /\ backend[DefaultUrl(8192)] = "down"
    /\ backend[DefaultUrl(8193)] = "good"
    /\ scan["main"].found = <<InstanceInfo(8193)>>
    /\ DOMAIN active_instances = {8193}

\* C16: set_current_port(port) sets current_instance_port to port whether or
\* not the port is stored or reachable, sends no request (the call is over in
\* that step) and leaves the store as it was; get_current_port returns the
\* port set last, which nothing but a set_current_port changes (instances_use
\* calls it, instance_tools.py:101).
C16_SetCurrentSetsAnyPort ==
    /\ [](pc["main"] = "done" /\ call.name = "get_current" =>
             ret = [kind |-> "port", port |-> current_instance_port])
    /\ [][/\ (pc["main"] = "idle" /\ call'.name = "set_current") =>
                /\ current_instance_port' = call'.port
                /\ pc'["main"] = "done"
                /\ active_instances' = active_instances
                /\ reg' = reg
                /\ instances_lock' = instances_lock
          /\ current_instance_port' # current_instance_port =>
                /\ call'.name \in {"set_current", "use"}
                /\ current_instance_port' = call'.port]_vars

\* C16's case: the current port was set to a port that is neither stored nor
\* reachable.
C16_Witness ==
    /\ pc["main"] = "done"
    /\ call.name = "set_current"
    /\ call.port \notin DOMAIN active_instances
    /\ backend[DefaultUrl(call.port)] = "down"
    /\ current_instance_port = call.port
    /\ call.port # DEFAULT_GHIDRA_PORT

\* C17: unregister(port) removes the record of a stored port and reports it,
\* and reports that none was found, the store as it was, for a port that is
\* not stored; the records of the other ports and current_instance_port are
\* what they were.
C17_UnregisterRemovesOwnKeyOnly ==
    [][(pc["main"] = "idle" /\ call'.name = "unregister") =>
          LET port == call'.port IN
          /\ pc'["main"] = "done"
          /\ IF port \in DOMAIN active_instances
             THEN /\ DOMAIN active_instances' = DOMAIN active_instances \ {port}
                  /\ ret' = [kind |-> "unregistered", port |-> port]
             ELSE /\ active_instances' = active_instances
                  /\ ret' = [kind |-> "no_instance_found", port |-> port]
          /\ \A q \in DOMAIN active_instances \ {port} :
                /\ q \in DOMAIN active_instances'
                /\ active_instances'[q] = active_instances[q]
          /\ current_instance_port' = current_instance_port]_vars

\* C17's case: the current port was unregistered, another port is still
\* stored, and current_instance_port names a port that is not in the store.
C17_Witness ==
    /\ pc["main"] = "done"
    /\ call.name = "unregister"
    /\ ret.kind = "unregistered"
    /\ current_instance_port = call.port
    /\ call.port \notin DOMAIN active_instances
    /\ active_instances # EmptyDict

\* C18: a /plugin-version answer with a success status and a malformed body
\* (not JSON, or JSON without the result object) makes register fail, and no
\* record is stored: register comes to its store step only with a
\* project_info in which the handshake has set the versions.
C18_MalformedHandshakeIsRejected ==
    \A t \in Threads :
        pc[t] = "reg_store" =>
           /\ Has(reg[t].info, "plugin_version")
           /\ Has(reg[t].info, "api_version")

\* C19: a handshake whose result object has no api_version does not trigger
\* the mismatch test: register goes on to store the record.
C19_AbsentVersionIsAccepted ==
    \A t \in Threads :
        pc[t] = "reg_probe" =>
           \A resp \in PluginVersionAnswers(reg[t].url) :
              (/\ resp.kind = "http" /\ resp.ok
               /\ resp.body.json /\ resp.body.dict
               /\ Has(resp.body.d, "result")
               /\ resp.body.d["result"].dict
               /\ ~Has(resp.body.d["result"].d, "api_version")) =>
                 ~Handshake(reg[t].url, resp).done

\* C19, amended: a handshake whose result object has no api_version is taken
\* as reporting version 0: register returns the mismatch message naming 0 and
\* the required version, and a project_info built from a result object comes
\* to the store step only with the required api_version.
C19_AbsentVersionIsMismatch ==
    \A t \in Threads :
        /\ pc[t] = "reg_probe" =>
              \A resp \in PluginVersionAnswers(reg[t].url) :
                 (/\ resp.kind = "http" /\ resp.ok
                  /\ resp.body.json /\ resp.body.dict
                  /\ Has(resp.body.d, "result")
                  /\ resp.body.d["result"].dict
                  /\ ~Has(resp.body.d["result"].d, "api_version")) =>
                    /\ Handshake(reg[t].url, resp).done
                    /\ Handshake(reg[t].url, resp).ret = VersionMismatch(0)
        /\ (pc[t] = "reg_store" /\ Has(reg[t].info, "plugin_version")) =>
              /\ Has(reg[t].info, "api_version")
              /\ reg[t].info["api_version"] = REQUIRED_API_VERSION

\* C19's case: a register call was answered with the mismatch naming version 0.
C19_Witness ==
    /\ pc["main"] = "done"
    /\ call.name = "register"
    /\ ret = VersionMismatch(0)

\* C20: after a handshake that reported the required api_version, register
\* stores the record and returns the success message whatever the /program
\* request does; when that request errors, answers a non-success status or a
\* malformed body, the record holds the url and the reported versions and no
\* descriptive field.
C20_EnrichmentIsAdvisory ==
    /\ [](\A t \in Threads :
            pc[t] = "reg_probe" =>
              \A resp \in PluginVersionAnswers(reg[t].url) :
                 resp = Http(TRUE, GoodHandshake) =>
                    LET h == Handshake(reg[t].url, resp) IN
                    /\ ~h.done
                    /\ \A info_response \in ProgramAnswers(reg[t].url) :
                          ~HasProgramResult(info_response) =>
                             ParseProgram(h.info, info_response)
                               = [url |-> reg[t].url,
                                  plugin_version |-> PLUGIN_VERSION,
                                  api_version |-> REQUIRED_API_VERSION])
    /\ [][\A t \in Threads :
            (pc[t] = "reg_store" /\ pc'[t] # "reg_store") =>
               /\ active_instances'[reg[t].port] = reg[t].info
               /\ IF Head(stack[t]) = "tool"
                  THEN ret' = Registered(reg[t].port, reg[t].url)
                  ELSE regret'[t] = Registered(reg[t].port, reg[t].url)]_vars

\* C20's case: a register call has succeeded against a backend whose /program
\* gave nothing: the record holds the url and the versions only.
C20_Witness ==
    /\ pc["main"] = "done"
    /\ call.name = "register"
    /\ ret.kind = "registered"
    /\ call.port \in DOMAIN active_instances
    /\ DOMAIN active_instances[call.port] = {"url", "plugin_version", "api_version"}
    /\ active_instances[call.port]["api_version"] = REQUIRED_API_VERSION

\* C21: in a refresher cycle a port is marked for removal only when its
\* /plugin-version probe can have failed (request error or non-success
\* status); a record whose backend answers the probe, whatever it reports and
\* whatever /program does, is not marked, and the only ports that leave the
\* store during the sweep are the marked ones, so an unmarked record is in
\* the store when the cycle ends.
C21_LiveRecordSurvivesSweep ==
    /\ [](pc["bg"] = "sweep" =>
            /\ \A i \in 1..Len(sweep.remove) : sweep.remove[i] \in DOMAIN active_instances
            /\ \A i \in 1..Len(sweep.todo) : sweep.todo[i] \in DOMAIN active_instances)
    /\ [][/\ (pc["bg"] = "sweep" /\ sweep.todo # <<>> /\ sweep' # sweep) =>
                LET port == Head(sweep.todo)
                    url == active_instances[port]["url"]
                    answers == url \in Urls /\ backend[url] # "down"
                IN /\ sweep'.todo = Tail(sweep.todo)
                   /\ port \in DOMAIN active_instances'
                   /\ answers => sweep'.remove = sweep.remove
                   /\ sweep'.remove # sweep.remove =>
                         /\ sweep'.remove = Append(sweep.remove, port)
                         /\ ~answers
          /\ pc["bg"] = "sweep" =>
                \A port \in DOMAIN active_instances :
                   port \notin DOMAIN active_instances' =>
                      /\ sweep.todo = <<>>
                      /\ sweep.remove # <<>>
                      /\ port = Head(sweep.remove)]_vars

\* C21's case: the sweep has probed every record and marked none; the record
\* of the rich port, whose backend answers with any body, has been through
\* the probe with a /program request that gave nothing, and is in the store.
C21_Witness ==
    /\ pc["bg"] = "sweep"
    /\ sweep.todo = <<>>
    /\ sweep.remove = <<>>
    /\ RichPort \in DOMAIN active_instances
    /\ active_instances[RichPort]["url"] = DefaultUrl(RichPort)
    /\ backend[DefaultUrl(RichPort)] = "any"
    /\ ~Has(active_instances[RichPort], "api_version")
    /\ ~Has(active_instances[RichPort], "file")

\* The descriptive fields of a record (state.py:221-230).
DescriptiveFields ==
    {"project", "path", "file", "language_id", "compiler_spec_id", "image_base"}

\* C22: a step of the refresher's liveness sweep changes, in the records it
\* leaves in the store, the descriptive fields only: every other field of
\* every surviving record (url, plugin_version, api_version) is there or not
\* as before, with its value, and current_instance_port is what it was.
C22_SweepChangesDescriptiveFieldsOnly ==
    [][(pc["bg"] = "sweep" /\ sweep' # sweep) =>
          /\ current_instance_port' = current_instance_port
          /\ \A port \in DOMAIN active_instances \cap DOMAIN active_instances' :
                LET old == active_instances[port]
                    new == active_instances'[port]
                IN /\ DOMAIN old \subseteq DOMAIN new
                   /\ \A k \in DOMAIN new \ DescriptiveFields :
                         /\ k \in DOMAIN old
                         /\ new[k] = old[k]]_vars

\* C22's case: the sweep has refreshed the record of a port, which now holds
\* the program's fields beside its url and versions, as the cycle ends.
C22_Witness ==
    /\ pc["bg"] = "sweep"
    /\ sweep.todo = <<>>
    /\ sweep.remove = <<>>
    /\ \E port \in DOMAIN active_instances :
          /\ DescriptiveFields \subseteq DOMAIN active_instances[port]
          /\ Has(active_instances[port], "api_version")
          /\ active_instances[port]["api_version"] = REQUIRED_API_VERSION
          /\ active_instances[port]["plugin_version"] = PLUGIN_VERSION
          /\ current_instance_port # port

----------------------------------------------------------------------------
(* The request helper, src/bridge/http_client.py *)

\* Python's None.
None == [kind |-> "none"]

\* A str payload.
Text == [kind |-> "str"]

\* A dict value.
Dict(d) == [kind |-> "dict", d |-> d]

\* A URL text by its parts: the scheme and the host as written, the port
\* (NoPort when none is written) and the path.
UrlText(scheme, host, port, path) ==
    [scheme |-> scheme, host |-> host, port |-> port, path |-> path]

\* http_client.py:12: the default of GHIDRA_ALLOWED_ORIGINS, split at ",".
ALLOWED_ORIGINS == {UrlText("http", "localhost", NoPort, "")}

\* str.lower() on the texts of the universe (urlparse lower-cases the scheme,
\* and its hostname property the host).
Lower(s) ==
    IF s = "HTTP" THEN "http"
    ELSE IF s = "LOCALHOST" THEN "localhost"
    ELSE s

\* The Origin values callers send.
Origins ==
    { UrlText("http", "localhost", NoPort, ""),
      UrlText("HTTP", "LOCALHOST", NoPort, ""),
      UrlText("http", "localhost", NoPort, "/app"),
      UrlText("http", "localhost", 8080, ""),
      UrlText("http", "evil.example", NoPort, ""),
      UrlText("http", "localhost", MAX_PORT + 1, "") }

\* http_client.py:25-28: scheme://hostname, and :port when there is one.
OriginBase(origin) ==
    UrlText(Lower(origin.scheme), Lower(origin.host), origin.port, "")

\* validate_origin(headers), http_client.py:19-31; reading the port of a URL
\* whose port is out of range raises ValueError (line 27, caught at line 29).
validate_origin(headers) ==
    IF ~Has(headers, "Origin") THEN TRUE
    ELSE LET origin == headers["Origin"]
         IN IF origin.port > MAX_PORT THEN FALSE
            ELSE OriginBase(origin) \in ALLOWED_ORIGINS

Methods == {"GET", "POST", "PUT", "PATCH", "DELETE"}

\* http_client.py:57
IsStateChanging(method) == method \in {"POST", "PUT", "PATCH", "DELETE"}

\* The headers dicts callers put under the "headers" key of their data.
CallerHeaders == {EmptyDict} \cup {[Origin |-> o] : o \in Origins}

\* The data arguments: a str, a dict with a "name" entry, and dicts that carry
\* a "headers" entry as well.
DataInputs(method) ==
    IF method \in {"GET", "DELETE"} THEN {None}
    ELSE (IF method = "POST" THEN {Text} ELSE {})
         \cup {Dict([name |-> "x"])}
         \cup {Dict([name |-> "x", headers |-> Dict(h)]) : h \in CallerHeaders}

\* data.pop("headers", None): the value popped and the dict left.
PopHeaders(data) ==
    [popped |-> GetOr(data.d, "headers", None), left |-> Dict(Del(data.d, "headers"))]

\* safe_get, safe_post, safe_put, safe_patch and safe_delete,
\* http_client.py:139-171: the arguments _make_request is called with.
SafeArgs(method, data) ==
    IF method \in {"GET", "DELETE"}
    THEN [json_data |-> None, data |-> None, headers |-> None]
    ELSE IF data.kind = "dict"
    THEN [json_data |-> PopHeaders(data).left, data |-> None,
          headers |-> PopHeaders(data).popped]
    ELSE IF method = "POST"
    THEN [json_data |-> None, data |-> data, headers |-> None]
    ELSE [json_data |-> data, data |-> None, headers |-> None]

\* http_client.py:59-61: the headers handed to validate_origin.
CheckHeaders(json_data, headers) ==
    IF json_data.kind = "dict"
    THEN (IF Has(json_data.d, "headers") THEN json_data.d["headers"].d ELSE EmptyDict)
    ELSE IF headers.kind = "dict" THEN headers.d
    ELSE EmptyDict

\* http_client.py:50-55: the headers of the request sent.
RequestHeaders(headers) ==
    IF headers.kind = "dict" /\ headers.d # EmptyDict
    THEN Put(headers.d, "Accept", "application/json")
    ELSE [Accept |-> "application/json"]

\* error_response("ORIGIN_NOT_ALLOWED", ..., 403), http_client.py:63.
OriginNotAllowed ==
    [kind |-> "error", code |-> "ORIGIN_NOT_ALLOWED", status_code |-> 403]

\* http_client.py:69-132: what _make_request returns of a request it sent.
RequestOutcomes(url) ==
    IF url \notin FlakyUrls /\ (url \notin DOMAIN backend \/ backend[url] = "down")
    THEN {"CONNECTION_ERROR", "REQUEST_TIMEOUT", "HTTP_ERROR"}
    ELSE {"parsed_json", "NON_JSON_RESPONSE", "HTTP_ERROR", "REQUEST_TIMEOUT"}

\* http_client.py:50-132: with the url known, the origin check, and the
\* request sent when it passes.
SendRequest(method, data, url) ==
    LET args == SafeArgs(method, data)
    IN IF /\ IsStateChanging(method)
          /\ ~validate_origin(CheckHeaders(args.json_data, args.headers))
       THEN Finish(OriginNotAllowed)
       ELSE \E outcome \in RequestOutcomes(url) :
               Finish([kind |-> "response", method |-> method, url |-> url,
                       headers |-> RequestHeaders(args.headers), outcome |-> outcome])

\* A safe_* call up to the end of get_instance_url's first membership test
\* (http_client.py:48, state.py:36-42) and, when the url is known then,
\* through to its return.
make_request ==
    /\ pc["main"] = "idle"
    /\ CanAcquire("main")
    /\ \E method \in Methods, port \in UrlInputPorts :
          \E data \in DataInputs(method) :
             /\ call' = [name |-> "request", port |-> port, url |-> NoUrl,
                         method |-> method, data |-> data]
             /\ IF port \in DOMAIN active_instances
                THEN /\ SendRequest(method, data, active_instances[port]["url"])
                     /\ UNCHANGED <<instances_lock, stack, reg>>
                ELSE IF LazyUrlPort(port)
                THEN /\ CallRegisterInstance("main", port, NoUrl, "request_url")
                     /\ instances_lock' = "main"
                     /\ UNCHANGED ret
                ELSE /\ SendRequest(method, data, DefaultUrl(port))
                     /\ UNCHANGED <<instances_lock, stack, reg>>
    /\ UNCHANGED <<active_instances, current_instance_port, backend,
                   scan, sweep, regret>>

\* state.py:43-45, http_client.py:48-132: register_instance has returned to
\* get_instance_url; the lock scope ends and the call goes on with the url.
request_url ==
    /\ pc["main"] = "request_url"
    /\ SendRequest(call.method, call.data,
                   IF call.port \in DOMAIN active_instances
                   THEN active_instances[call.port]["url"]
                   ELSE DefaultUrl(call.port))
    /\ instances_lock' = NoThread
    /\ regret' = [regret EXCEPT !["main"] = NoRet]
    /\ UNCHANGED <<active_instances, current_instance_port, backend,
                   stack, reg, scan, sweep, call>>

\* The request helper on its own: the server is up, the store holds what an
\* earlier registration left there, and the client calls the safe_* helpers.
\* register_instance's store step is not among the steps: called from inside
\* get_instance_url's lock scope, it waits for the lock for ever.
InitHttp ==
    /\ active_instances \in
          {EmptyDict,
           Put(EmptyDict, 8193, [url |-> DefaultUrl(8193), plugin_version |-> PLUGIN_VERSION,
                                 api_version |-> REQUIRED_API_VERSION])}
    /\ instances_lock = NoThread
    /\ current_instance_port = DEFAULT_GHIDRA_PORT
    /\ backend \in [Urls -> {"down", "good"}]
    /\ pc = [t \in Threads |-> IF t = "main" THEN "idle" ELSE "not_started"]
    /\ stack = [t \in Threads |-> <<>>]
    /\ reg = [t \in Threads |-> NoReg]
    /\ regret = [t \in Threads |-> NoRet]
    /\ scan = [t \in Threads |-> NoScan]
    /\ sweep = NoSweep
    /\ call = NoCall
    /\ ret = NoRet

NextHttp == make_request \/ reg_probe("main") \/ request_url \/ tool_return

SpecHttp == InitHttp /\ [][NextHttp]_vars

\* The Origin the caller of a safe_* helper supplied, in the "headers" entry
\* of its data; None when it supplied none.
CallerOrigin(data) ==
    IF data.kind = "dict" /\ Has(data.d, "headers") /\ Has(data.d["headers"].d, "Origin")
    THEN data.d["headers"].d["Origin"]
    ELSE None

\* C23: a POST, PUT, PATCH or DELETE made through the safe_* helpers whose
\* caller-supplied headers carry an Origin that is not in the allowed-origins
\* list is answered with ORIGIN_NOT_ALLOWED, no request sent; with an allowed
\* Origin or none the request is sent, and a GET is sent whatever it carries.
C23_DisallowedOriginIsRejected ==
    (pc["main"] = "done" /\ call.name = "request") =>
       LET origin == CallerOrigin(call.data)
       IN /\ call.method = "GET" => ret.kind = "response"
          /\ (origin = None \/ origin \in ALLOWED_ORIGINS) => ret.kind = "response"
          /\ (IsStateChanging(call.method) /\ origin # None
                                           /\ origin \notin ALLOWED_ORIGINS) =>
                ret = OriginNotAllowed

\* C24: a backend on a port of the full discovery range that is live and
\* compatible from some point on, with no unregister after it, is eventually
\* in the store and stays there, when the refresher has been started and
\* keeps being scheduled.
C24_LiveBackendIsEventuallyStored ==
    \A port \in BackendPorts :
        (/\ <>(pc["bg"] # "not_started")
         /\ <>[](backend[DefaultUrl(port)] = "good"))
        => <>[](port \in DOMAIN active_instances)

\* The positions at which a thread is about to take instances_lock: the store
\* step of register_instance (state.py:131), the start of the sweep
\* (state.py:199), the reading scope of instances_use (instance_tools.py:103)
\* and the listing scope (instance_tools.py:32, 59).
LockRequests == {"reg_store", "sweep_lock", "use_read", "list_build"}

\* C25: no thread requests instances_lock while it holds it: a thread at a
\* position where it takes the lock, in register_instance called from
\* get_instance_url included, does not hold the lock, and a thread about to
\* start a call that takes the lock does not hold it either.
C25_NoLockReentry ==
    \A t \in Threads :
        /\ pc[t] \in LockRequests => instances_lock # t
        /\ pc[t] \in {"idle", "bg_sleep"} => instances_lock # t

\* state.py:190: the dict _discover_instances returns.
DiscoverResult(found_instances) ==
    [found |-> Len(found_instances), instances |-> found_instances]

\* The ports of range(DEFAULT_GHIDRA_PORT, DEFAULT_GHIDRA_PORT + len).
RangePorts(len) == DEFAULT_GHIDRA_PORT .. (DEFAULT_GHIDRA_PORT + len - 1)

\* The range thread t scans: the refresher the full one (state.py:197), the
\* main thread's callers the quick one (state.py:253, instance_tools.py:30, 57).
ScannedPorts(t) ==
    IF t = "bg" THEN RangePorts(FULL_DISCOVERY_LEN) ELSE RangePorts(QUICK_DISCOVERY_LEN)

\* C26: a scan appends an entry for every port it has called the validator
\* for (a port absent from the store that answered with a well-formed success
\* body), whether the validator stored the port or rejected it; found is the
\* number of the listed entries and every listed port is in the scanned
\* range.  Every port the scan adds to the store being one it called the
\* validator for, found is then at least the number of ports it added.
C26_ScanListsEveryAnsweringPort ==
    /\ [](\A t \in Threads :
            LET result == DiscoverResult(scan[t].found)
            IN /\ result.found = Len(result.instances)
               /\ \A i \in 1..Len(result.instances) :
                     result.instances[i] \in ScannedPorts(t))
    /\ [][\A t \in Threads :
            (pc[t] \in {"scan_post", "scan_read"} /\ pc'[t] = "scan_port") =>
               scan'[t].found = Append(scan[t].found, InstanceInfo(Head(scan[t].todo)))]_vars

\* C27: instances_use(port) sets current_instance_port only in a step in which
\* it finds port in the store; when port is not stored, its registration has
\* failed and port is still not stored, it returns the no-active-instance
\* error with current_instance_port and the store as they were (the failed
\* registration has changed neither); and when it reports success,
\* current_instance_port is port.
C27_UseSetsCurrentPortOfStoredPort ==
    /\ [](pc["main"] = "done" /\ call.name = "use" /\ ret.kind = "now_using" =>
             /\ current_instance_port = call.port
             /\ ret.port = call.port)
    /\ [][/\ (call'.name = "use" /\ current_instance_port' # current_instance_port) =>
                /\ call'.port \in DOMAIN active_instances
                /\ current_instance_port' = call'.port
                /\ pc'["main"] = "use_read"
          /\ (call.name = "use" /\ pc["main"] = "reg_probe" /\ pc'["main"] = "use_recheck") =>
                /\ regret'["main"].kind # "registered"
                /\ active_instances' = active_instances
                /\ current_instance_port' = current_instance_port
          /\ (/\ pc["main"] = "use_recheck"
              /\ pc'["main"] # "use_recheck"
              /\ call.port \notin DOMAIN active_instances) =>
                /\ pc'["main"] = "done"
                /\ ret' = [kind |-> "no_active_instance", port |-> call.port]
                /\ active_instances' = active_instances
                /\ current_instance_port' = current_instance_port]_vars

\* C27's case: instances_use of a port that was not stored has ended with the
\* error, its registration having failed; the current port is another one.
C27_Witness ==
    /\ pc["main"] = "done"
    /\ call.name = "use"
    /\ ret.kind = "no_active_instance"
    /\ call.port \notin DOMAIN active_instances
    /\ current_instance_port # call.port
    /\ active_instances # EmptyDict

\* C28: instances_list and instances_discover start with a quick scan and,
\* when it has returned, build their answer in one lock scope: one entry per
\* port in the store, the ports of the entries being the store's key set and
\* each entry's url the record's, as they are in that step, whatever the
\* refresher is at.
C28_ListIsOneSnapshot ==
    [][/\ (pc["main"] = "idle" /\ call'.name \in {"list", "discover"}) =>
             /\ pc'["main"] = "scan_port"
             /\ scan'["main"].todo = QUICK_DISCOVERY_RANGE
             /\ stack'["main"] = <<"list_build">>
       /\ (pc["main"] = "list_build" /\ pc'["main"] # "list_build") =>
             /\ call.name \in {"list", "discover"}
             /\ instances_lock = NoThread
             /\ instances_lock' = NoThread
             /\ active_instances' = active_instances
             /\ pc'["main"] = "done"
             /\ ret'.kind = "instances"
             /\ {e.port : e \in ret'.instances} = DOMAIN active_instances
             /\ Cardinality(ret'.instances) = Cardinality(DOMAIN active_instances)
             /\ \A e \in ret'.instances : e.url = active_instances[e.port]["url"]]_vars

\* C28's case: a listing has returned the store's two records while the
\* refresher, in its scan, is about to write a record of its own.
C28_Witness ==
    /\ pc["main"] = "done"
    /\ call.name \in {"list", "discover"}
    /\ ret.kind = "instances"
    /\ Cardinality(ret.instances) = 2
    /\ pc["bg"] = "reg_store"

----------------------------------------------------------------------------
(* The discovery ranges: backends on ports further away *)

\* A port of the full range that is not in the quick one, and a port of
\* neither range.
FarPorts == {8205, 8300}

\* The urls whose backends are followed here: port 8193 and the far ports.
WideUrls == {DefaultUrl(8193)} \cup {DefaultUrl(port) : port \in FarPorts}

\* The program from its start, against backends that stay what they are: the
\* client lists, discovers and registers, the refresher cycles.
InitRanges ==
    /\ active_instances = EmptyDict
    /\ instances_lock = NoThread
    /\ current_instance_port = DEFAULT_GHIDRA_PORT
    /\ backend \in [WideUrls -> {"down", "good"}]
    /\ pc = [t \in Threads |-> IF t = "main" THEN "boot" ELSE "not_started"]
    /\ stack = [t \in Threads |-> <<>>]
    /\ reg = [t \in Threads |-> NoReg]
    /\ regret = [t \in Threads |-> NoRet]
    /\ scan = [t \in Threads |-> NoScan]
    /\ sweep = NoSweep
    /\ call = [NoCall EXCEPT !.name = "bootstrap"]
    /\ ret = NoRet

NextRanges ==
    \/ boot \/ boot_scan \/ boot_done
    \/ instances_list \/ list_build
    \/ instances_register
    \/ tool_return
    \/ BgStep
    \/ (\E t \in Threads : SharedStep(t))

SpecRanges == InitRanges /\ [][NextRanges]_vars

\* C29: a port enters the store only in the store step of a register of that
\* port; when a scan made the call, the port is in the scan's preset range
\* (8192..8201 for bootstrap, instances_list and instances_discover,
\* 8192..8211 for the refresher); bootstrap's own register is of the default
\* port; every other register is the client's explicit or lazy registration
\* of that very port.  So a port outside 8192..8211 is stored only by those.
C29_DiscoveryAddsPortsOfItsRange ==
    [][\A port \in DOMAIN active_instances' \ DOMAIN active_instances :
          \E t \in Threads :
             /\ pc[t] = "reg_store"
             /\ pc'[t] # "reg_store"
             /\ reg[t].port = port
             /\ CASE Head(stack[t]) = "scan_post" ->
                       /\ port \in ScannedPorts(t)
                       /\ t = "main" => call.name \in {"bootstrap", "list", "discover"}
                  [] Head(stack[t]) = "boot_scan" ->
                       /\ t = "main"
                       /\ port = DEFAULT_GHIDRA_PORT
                  [] OTHER ->
                       /\ t = "main"
                       /\ call.name \in {"register", "resolve", "use", "get_url"}
                       /\ call.port = port]_vars

\* C29's case: live backends on a port of the full range only and on a port
\* of no range; the refresher's scan has just registered the first, the
\* second is stored by the client's register, and the client's listing, its
\* quick scan over, has returned.
C29_Witness ==
    /\ pc["bg"] = "scan_post"
    /\ regret["bg"].kind = "registered"
    /\ Head(scan["bg"].todo) = 8205
    /\ 8205 \in DOMAIN active_instances
    /\ 8300 \in DOMAIN active_instances
    /\ pc["main"] = "done"
    /\ call.name = "list"

====
